---- MODULE Spec2Model ----
(***************************************************************************)
(* A model of the WattCoin scraping core:                                  *)
(*   - wattnode/services/scraper.py : local_scrape and its exceptions      *)
(*   - scraper_errors.py            : the validators and error taxonomy    *)
(*   - the /api/v1/scrape request handler (bridge_web), whose observable   *)
(*     behaviour is fixed by tests/test_scrape*.py                         *)
(* Text is modelled as sequences of one-character strings, bytes likewise. *)
(***************************************************************************)
EXTENDS Integers, Sequences, FiniteSets, TLC

\* ------------------------------------------------------------------------
\* Program constants (wattnode/services/scraper.py, scraper_errors.py)
\* ------------------------------------------------------------------------
TIMEOUT == 30
MAX_SIZE == 2 * 1024 * 1024
MAX_REDIRECTS == 3
CHUNK_SIZE == 8192
MAX_URL_LENGTH == 2048

\* ------------------------------------------------------------------------
\* Bounds of the model
\* ------------------------------------------------------------------------
\* longest redirect chain the modelled servers produce
MaxChain == 4
\* nesting depth of a JSON text beyond which the decoder exhausts the
\* interpreter's stack (scaled down)
MaxNesting == 3
\* largest max_retries a retry_with_backoff configuration takes
MaxRetries == 3
\* chunks of a body whose arrival times are followed
MaxTimedChunks == 3
\* last day of the clock of the backup model
MaxDay == 9
\* backups the administrator lets pile up before asking for another
MaxKept == 1

\* ------------------------------------------------------------------------
\* Text helpers (Python str methods used by the code)
\* ------------------------------------------------------------------------
UPPER == <<"A","B","C","D","E","F","G","H","I","J","K","L","M",
           "N","O","P","Q","R","S","T","U","V","W","X","Y","Z">>
LOWER == <<"a","b","c","d","e","f","g","h","i","j","k","l","m",
           "n","o","p","q","r","s","t","u","v","w","x","y","z">>
DIGITS == {"0","1","2","3","4","5","6","7","8","9"}
WHITESPACE == {" ", "\t", "\n", "\r"}

Range(s) == {s[i] : i \in DOMAIN s}

\* the lower-case letter of each upper-case letter
LowerOf == [c \in Range(UPPER) |-> LOWER[CHOOSE i \in DOMAIN UPPER : UPPER[i] = c]]

\* str.lower() on one character
LowerChar(c) == IF c \in DOMAIN LowerOf THEN LowerOf[c] ELSE c

\* str.lower()
Lower(s) == [i \in DOMAIN s |-> LowerChar(s[i])]

RECURSIVE FirstNonWs(_, _)
\* least index >= i of a non-whitespace character, Len(s) + 1 if none
FirstNonWs(s, i) ==
  IF i > Len(s) THEN i ELSE IF s[i] \in WHITESPACE THEN FirstNonWs(s, i + 1) ELSE i

RECURSIVE LastNonWs(_, _)
\* greatest index <= i of a non-whitespace character, 0 if none
LastNonWs(s, i) ==
  IF i < 1 THEN 0 ELSE IF s[i] \in WHITESPACE THEN LastNonWs(s, i - 1) ELSE i

\* str.strip(): drop leading and trailing whitespace
Strip(s) ==
  IF s = << >> \/ (s[1] \notin WHITESPACE /\ s[Len(s)] \notin WHITESPACE) THEN s
  ELSE SubSeq(s, FirstNonWs(s, 1), LastNonWs(s, Len(s)))

\* s[:n], the first n characters of s
Prefix(s, n) == SubSeq(s, 1, IF n < Len(s) THEN n ELSE Len(s))

\* str.startswith(prefix)
StartsWith(s, prefix) ==
  /\ Len(s) >= Len(prefix)
  /\ SubSeq(s, 1, Len(prefix)) = prefix

\* "needle in haystack" for sequences
Contains(haystack, needle) ==
  \E i \in 1..(Len(haystack) - Len(needle) + 1) :
     SubSeq(haystack, i, i + Len(needle) - 1) = needle

\* n copies of character c
Repeat(c, n) == [i \in 1..n |-> c]

HTTP_PREFIX == <<"h","t","t","p",":","/","/">>
HTTPS_PREFIX == <<"h","t","t","p","s",":","/","/">>

\* ------------------------------------------------------------------------
\* URL inputs
\* ------------------------------------------------------------------------
UrlEmpty == << >>
UrlBlank == <<" ", " ">>
UrlNoScheme == <<"e","x",".","c","o","m","/","p">>
UrlFtp == <<"f","t","p",":","/","/","e","x">>
UrlOk == <<"h","t","t","p","s",":","/","/","e","x">>
UrlOk2 == <<"h","t","t","p",":","/","/","e","x","/","b">>
UrlUpperPadded == <<" ","H","T","T","P",":","/","/","e","x"," ">>
UrlCred == <<"h","t","t","p",":","/","/","u",":","p","@","h","/">>
UrlAtInPath == <<"h","t","t","p",":","/","/","h","/","a","@","b">>
UrlMaxLen == HTTP_PREFIX \o Repeat("a", MAX_URL_LENGTH - 7)
UrlTooLong == HTTP_PREFIX \o Repeat("a", MAX_URL_LENGTH - 6)
\* credentials and over length at once; a URL quoted inside a query string
UrlCredTooLong == UrlCred \o Repeat("a", MAX_URL_LENGTH)
UrlNested == <<"h","t","t","p",":","/","/","h","/","?","a",":","/","/","u","@","x">>

\* URLs handed to local_scrape
UrlInputs == {UrlEmpty, UrlBlank, UrlNoScheme, UrlFtp, UrlOk, UrlUpperPadded,
              UrlCred, UrlTooLong}
\* Location targets a server may redirect to
RedirectTargets == {UrlOk2, UrlCred, UrlFtp}

\* ------------------------------------------------------------------------
\* wattnode/services/scraper.py : exception hierarchy
\* An exception value is a record; detail holds what to_dict() adds.
\* ------------------------------------------------------------------------
NoDetail == {}

ScraperException(message, error_code, status_code) ==
  [cls |-> "ScraperException", scraper |-> TRUE, error_code |-> error_code,
   status_code |-> status_code, message |-> message, detail |-> NoDetail]

InvalidURLError(message) ==
  [ScraperException(message, "invalid_url", 400) EXCEPT !.cls = "InvalidURLError"]

TimeoutError_ ==
  [ScraperException(<<"Request timed out. The target server took too long to respond.">>,
                    "timeout", 504) EXCEPT !.cls = "TimeoutError_"]

SSLError ==
  [ScraperException(<<"SSL/TLS certificate error. The target server's certificate is invalid or untrusted.">>,
                    "ssl_error", 502) EXCEPT !.cls = "SSLError"]

DNSError ==
  [ScraperException(<<"Unable to resolve domain name. Check that the domain is valid and accessible.">>,
                    "dns_error", 502) EXCEPT !.cls = "DNSError"]

ConnectionRefusedError_ ==
  [ScraperException(<<"Connection refused. The target server rejected the connection.">>,
                    "connection_error", 502) EXCEPT !.cls = "ConnectionRefusedError_"]

HostUnreachableError ==
  [ScraperException(<<"Host is unreachable. Check that the host address is valid.">>,
                    "host_unreachable", 502) EXCEPT !.cls = "HostUnreachableError"]

\* HTTPError._MESSAGES.get(status_code, default)
HTTPErrorMessage(status_code) ==
  CASE status_code = 401 -> <<"The target server requires authentication (HTTP 401).">>
    [] status_code = 403 -> <<"Access to the target URL is forbidden (HTTP 403).">>
    [] status_code = 404 -> <<"The target URL was not found (HTTP 404). Check the URL and try again.">>
    [] status_code = 429 -> <<"The target server is rate limiting requests (HTTP 429). Try again later.">>
    [] status_code = 500 -> <<"The target server returned an internal error (HTTP 500). Try again later.">>
    [] status_code = 503 -> <<"The target server is unavailable (HTTP 503). Try again later.">>
    [] OTHER -> <<"The target server returned an error (HTTP ", ToString(status_code), ").">>

HTTPError(status_code) ==
  [ScraperException(HTTPErrorMessage(status_code), "http_error", 502)
     EXCEPT !.cls = "HTTPError", !.detail = {<<"status_code", status_code>>}]

ResponseTooLargeError(received) ==
  [ScraperException(<<"Response exceeds maximum size (", "2.0",
                      " MB). Use a more specific URL or selector.">>,
                    "response_too_large", 413)
     EXCEPT !.cls = "ResponseTooLargeError",
            !.detail = {<<"max_bytes", MAX_SIZE>>, <<"received_bytes", received>>}]

EmptyResponseError ==
  [ScraperException(<<"The target URL returned empty content. Verify the URL is correct.">>,
                    "empty_response", 502) EXCEPT !.cls = "EmptyResponseError"]

InvalidJSONError ==
  [ScraperException(<<"Response is not valid JSON. Verify the URL returns valid JSON.">>,
                    "invalid_json", 502) EXCEPT !.cls = "InvalidJSONError"]

\* detail is a sequence of message parts, << >> when absent
ParsingError(detail) ==
  [ScraperException(IF detail # << >>
                    THEN <<"An error occurred while parsing the response", ": ">> \o detail
                    ELSE <<"An error occurred while parsing the response">>,
                    "parsing_error", 500) EXCEPT !.cls = "ParsingError"]

\* ------------------------------------------------------------------------
\* Exceptions of the requests library and of Python, as local_scrape sees
\* them: a class name and the str() of the exception as a list of phrases.
\* ------------------------------------------------------------------------
Bases(cls) ==
  CASE cls = "SSLError" -> {"SSLError", "ConnectionError", "RequestException", "Exception"}
    [] cls = "ConnectTimeout" -> {"ConnectTimeout", "ConnectionError", "Timeout",
                                  "RequestException", "Exception"}
    [] cls = "ReadTimeout" -> {"ReadTimeout", "Timeout", "RequestException", "Exception"}
    [] cls = "ConnectionError" -> {"ConnectionError", "RequestException", "Exception"}
    [] cls = "ChunkedEncodingError" -> {"ChunkedEncodingError", "RequestException", "Exception"}
    [] cls = "InvalidSchema" -> {"InvalidSchema", "RequestException", "Exception"}
    [] OTHER -> {cls, "Exception"}

IsInstance(exc, cls) == cls \in Bases(exc.cls)

Raised(cls, text) ==
  [cls |-> cls, scraper |-> FALSE, error_code |-> "", status_code |-> 0,
   message |-> text, detail |-> NoDetail]

ExcTexts == {<<"Max retries exceeded", "Name or service not known">>,
             <<"Failed to resolve", "host">>,
             <<"Max retries exceeded", "Connection refused">>,
             <<"Network is unreachable">>,
             <<"certificate verify failed">>}

\* what requests.get may raise
GetExceptions ==
  {Raised(c, t) : c \in {"SSLError", "ConnectTimeout", "ReadTimeout", "ConnectionError",
                         "ValueError"},
                  t \in ExcTexts}

\* what resp.iter_content may raise while streaming
ReadExceptions ==
  {Raised(c, <<"Connection broken">>) : c \in {"ChunkedEncodingError", "ReadTimeout"}}

\* ------------------------------------------------------------------------
\* wattnode/services/scraper.py : helpers
\* ------------------------------------------------------------------------
NoError == Raised("None", << >>)

\* the exception _validate_url raises, or NoError
_validate_url(u) ==
  IF u = << >> \/ Strip(u) = << >>
  THEN InvalidURLError(<<"URL is required">>)
  ELSE IF ~ (StartsWith(Lower(Prefix(Strip(u), 8)), HTTP_PREFIX)
             \/ StartsWith(Lower(Prefix(Strip(u), 8)), HTTPS_PREFIX))
       THEN InvalidURLError(<<"URL must start with http:// or https://">>)
       ELSE NoError

_map_connection_error(exc) ==
  LET msg == exc.message IN
  IF Contains(msg, <<"Name or service not known">>) \/ Contains(msg, <<"Failed to resolve">>)
  THEN DNSError
  ELSE IF Contains(msg, <<"Connection refused">>)
       THEN ConnectionRefusedError_
       ELSE IF Contains(msg, <<"Network is unreachable">>)
            THEN HostUnreachableError
            ELSE ScraperException(
                   <<"Failed to connect to the target server. Check the URL and try again.">>,
                   "connection_error", 502)

MapGetException_connectionFirst(exc) ==
  IF IsInstance(exc, "Timeout") THEN TimeoutError_
  ELSE IF IsInstance(exc, "ConnectionError") THEN _map_connection_error(exc)
  ELSE IF IsInstance(exc, "SSLError") THEN SSLError
  ELSE IF IsInstance(exc, "RequestException")
       THEN ScraperException(<<"HTTP request failed. Please verify the URL and try again.">>,
                             "connection_error", 502)
       ELSE exc

\* the except clauses around requests.get, in source order; an exception
\* no clause matches propagates unchanged
MapGetException(exc) ==
  IF IsInstance(exc, "SSLError") THEN SSLError
  ELSE IF IsInstance(exc, "Timeout") THEN TimeoutError_
  ELSE IF IsInstance(exc, "ConnectionError") THEN _map_connection_error(exc)
  ELSE IF IsInstance(exc, "RequestException")
       THEN ScraperException(<<"HTTP request failed. Please verify the URL and try again.">>,
                             "connection_error", 502)
       ELSE exc

\* ------------------------------------------------------------------------
\* scraper_errors.py : ScraperError and the validators.  A validator returns
\* (is_valid, error); NoScraperError stands for None.
\* ------------------------------------------------------------------------
NoExtra == [k \in {} |-> 0]

ScraperError(error_code, message, status_code, extra_details) ==
  [error_code |-> error_code, message |-> message, status_code |-> status_code,
   extra_details |-> extra_details]

NoScraperError == ScraperError("", << >>, 0, NoExtra)
Valid == [valid |-> TRUE, error |-> NoScraperError]
Invalid(error) == [valid |-> FALSE, error |-> error]

ALNUM == Range(UPPER) \cup Range(LOWER) \cup DIGITS

\* re.match(r'^https?://', url, re.IGNORECASE)
MatchesScheme(u) ==
  \/ Lower(Prefix(u, Len(HTTP_PREFIX))) = HTTP_PREFIX
  \/ Lower(Prefix(u, Len(HTTPS_PREFIX))) = HTTPS_PREFIX

\* re.search(r'[a-zA-Z0-9]+://[^/]*@', url)
HasCredentials(u) ==
  \E i \in DOMAIN u :
    /\ u[i] \in ALNUM
    /\ i + 3 <= Len(u)
    /\ SubSeq(u, i + 1, i + 3) = <<":","/","/">>
    /\ \E j \in (i + 4)..Len(u) :
         /\ u[j] = "@"
         /\ \A k \in (i + 4)..(j - 1) : u[k] # "/"

validate_url_lengthFirst(u) ==
  LET stripped == Strip(u) IN
  IF u = << >>
  THEN Invalid(ScraperError("missing_url", <<"URL is required">>, 400, NoExtra))
  ELSE IF stripped = << >>
  THEN Invalid(ScraperError("missing_url", <<"URL cannot be empty">>, 400, NoExtra))
  ELSE IF ~ MatchesScheme(stripped)
  THEN Invalid(ScraperError("invalid_url", <<"URL must start with http:// or https://">>,
                            400, NoExtra))
  ELSE IF Len(stripped) > MAX_URL_LENGTH
  THEN Invalid(ScraperError("invalid_url", <<"URL exceeds maximum length (2048 characters)">>,
                            400, NoExtra))
  ELSE IF HasCredentials(stripped)
  THEN Invalid(ScraperError("invalid_url", <<"URLs with embedded credentials are not allowed">>,
                            400, NoExtra))
  ELSE Valid

validate_url(u) ==
  LET stripped == Strip(u) IN
  IF u = << >>
  THEN Invalid(ScraperError("missing_url", <<"URL is required">>, 400, NoExtra))
  ELSE IF stripped = << >>
  THEN Invalid(ScraperError("missing_url", <<"URL cannot be empty">>, 400, NoExtra))
  ELSE IF ~ MatchesScheme(stripped)
  THEN Invalid(ScraperError("invalid_url", <<"URL must start with http:// or https://">>,
                            400, NoExtra))
  ELSE IF HasCredentials(stripped)
  THEN Invalid(ScraperError("invalid_url", <<"URLs with embedded credentials are not allowed">>,
                            400, NoExtra))
  ELSE IF Len(stripped) > MAX_URL_LENGTH
  THEN Invalid(ScraperError("invalid_url", <<"URL exceeds maximum length (2048 characters)">>,
                            400, NoExtra))
  ELSE Valid

\* 2xx and 3xx are accepted, everything else is http_error
HttpStatusMessage(status_code) ==
  CASE status_code = 401 -> <<"The target server requires authentication (HTTP 401).">>
    [] status_code = 403 -> <<"Access to the target URL is forbidden (HTTP 403).">>
    [] status_code = 404 -> <<"The target URL was not found (HTTP 404). Check the URL and try again.">>
    [] status_code = 429 -> <<"The target server is rate limiting requests (HTTP 429). Try again later.">>
    [] status_code \in 400..499 -> <<"The server returned an error (HTTP ", ToString(status_code),
                                     "). Check the URL and try again.">>
    [] status_code \in 500..599 -> <<"The target server returned an error (HTTP ",
                                     ToString(status_code), "). Try again later.">>
    [] OTHER -> <<"Unexpected HTTP status code: ", ToString(status_code)>>

StatusAccepted(status_code) ==
  \/ (200 <= status_code /\ status_code < 300)
  \/ (300 <= status_code /\ status_code < 400)

validate_http_status(status_code) ==
  IF StatusAccepted(status_code)
  THEN Valid
  ELSE Invalid(ScraperError("http_error", HttpStatusMessage(status_code), 502,
                            [status_code |-> status_code]))

content_parsing_error(format_type) ==
  IF format_type = "json"
  THEN ScraperError("invalid_json",
                    <<"Response is not valid JSON. Verify the URL returns valid JSON.">>,
                    502, NoExtra)
  ELSE IF format_type = "html"
  THEN ScraperError("invalid_html",
                    <<"Failed to parse HTML response. The content may be corrupted.">>,
                    502, NoExtra)
  ELSE ScraperError("parsing_error",
                    <<"Failed to parse response as ">> \o format_type \o <<".">>,
                    502, NoExtra)

\* f"{max_size / (1024 * 1024):.1f}"
FormatMB(max_size) ==
  LET tenths == (max_size * 20 + 1024 * 1024) \div (2 * 1024 * 1024)
  IN ToString(tenths \div 10) \o "." \o ToString(tenths % 10)

validate_response_size(current_size, max_size) ==
  IF current_size > max_size
  THEN Invalid(ScraperError("response_too_large",
                            <<"Response exceeds maximum size (", FormatMB(max_size),
                              " MB). Use a more specific URL or selector.">>,
                            413, [max_bytes |-> max_size, received_bytes |-> current_size]))
  ELSE Valid

INVALID_OR_BLOCKED == <<"i","n","v","a","l","i","d"," ","o","r"," ","b","l","o","c","k","e","d">>
ReasonBlocked == <<"R","e","d","i","r","e","c","t"," ","t","o"," ","i","n","v","a","l","i","d"," ","o","r"," ","b","l","o","c","k","e","d"," ","U","R","L">>
ReasonOther == <<"R","e","d","i","r","e","c","t"," ","l","o","o","p">>

handle_redirect_error(reason) ==
  IF Contains(Lower(reason), INVALID_OR_BLOCKED)
  THEN ScraperError("redirect_error",
                    <<"The page redirects to a URL that is blocked or invalid.">>, 502, NoExtra)
  ELSE ScraperError("redirect_error",
                    <<"An error occurred while following page redirects.">>, 502, NoExtra)

handle_too_many_redirects ==
  ScraperError("too_many_redirects",
               <<"The page caused too many redirects. The URL may be in a redirect loop.">>,
               502, NoExtra)

FmtNone == << >>
FmtText == <<"t","e","x","t">>
FmtHtml == <<"h","t","m","l">>
FmtJson == <<"j","s","o","n">>
FmtXml == <<"x","m","l">>
FmtUpperText == <<"T","E","X","T">>
VALID_FORMATS == {FmtText, FmtHtml, FmtJson}

validate_format(format_str) ==
  IF format_str = << >>
  THEN Valid
  ELSE IF Lower(Strip(format_str)) \notin VALID_FORMATS
  THEN Invalid(ScraperError("invalid_format",
                            <<"Invalid format. Must be one of: ", "html, json, text">>, 400,
                            [valid_formats |-> <<"html", "json", "text">>]))
  ELSE Valid

\* bool(x and x.strip()); << >> stands for None as well as for ''
Present(x) == x # << >> /\ Strip(x) # << >>

validate_payment_params_walletOnly(api_key, wallet, tx_signature) ==
  LET has_api_key == Present(api_key)
      has_wallet == Present(wallet)
  IN IF ~ has_api_key /\ ~ has_wallet
     THEN Invalid(ScraperError("missing_payment",
                    <<"Payment required: either API key or WATT transaction signature">>, 402,
                    [price_watt |-> 100,
                     payment_to |-> "7vvNkG3JF3JpxLEavqZSkc5T3n9hHR98Uw23fbWdXVSF",
                     methods |-> <<"api_key", "watt_payment">>]))
     ELSE Valid

validate_payment_params(api_key, wallet, tx_signature) ==
  LET has_api_key == Present(api_key)
      has_wallet == Present(wallet)
      has_tx == Present(tx_signature)
  IN IF ~ has_api_key /\ ~ (has_wallet /\ has_tx)
     THEN Invalid(ScraperError("missing_payment",
                    <<"Payment required: either API key or WATT transaction signature">>, 402,
                    [price_watt |-> 100,
                     payment_to |-> "7vvNkG3JF3JpxLEavqZSkc5T3n9hHR98Uw23fbWdXVSF",
                     methods |-> <<"api_key", "watt_payment">>]))
     ELSE IF ~ has_api_key /\ has_wallet /\ ~ has_tx
     THEN Invalid(ScraperError("missing_payment",
                    <<"Transaction signature required when paying with WATT">>, 400, NoExtra))
     ELSE IF ~ has_api_key /\ ~ has_wallet /\ has_tx
     THEN Invalid(ScraperError("missing_payment",
                    <<"Wallet address required when paying with WATT">>, 400, NoExtra))
     ELSE Valid

\* exc is [cls, message]; the isinstance tests in source order
network_error_to_scraper_error(exc) ==
  LET exc_str == exc.message IN
  IF \E b \in Bases(exc.cls) : b = "Timeout"
  THEN ScraperError("timeout",
                    <<"Request timed out. The target server took too long to respond.">>,
                    504, NoExtra)
  ELSE IF \E b \in Bases(exc.cls) : b = "SSLError"
  THEN ScraperError("ssl_error",
                    <<"SSL/TLS certificate error. The target server's certificate is invalid or untrusted.">>,
                    502, NoExtra)
  ELSE IF \E b \in Bases(exc.cls) : b = "ConnectionError"
  THEN (IF Contains(exc_str, <<"Name or service not known">>)
           \/ Contains(exc_str, <<"Failed to resolve">>)
        THEN ScraperError("dns_error",
                          <<"Unable to resolve domain name. Check that the domain is valid and accessible.">>,
                          502, NoExtra)
        ELSE IF Contains(exc_str, <<"Connection refused">>)
        THEN ScraperError("connection_error",
                          <<"Connection refused. The target server rejected the connection.">>,
                          502, NoExtra)
        ELSE IF Contains(exc_str, <<"Network is unreachable">>)
        THEN ScraperError("host_unreachable",
                          <<"Host is unreachable. Check that the host address is valid.">>,
                          502, NoExtra)
        ELSE ScraperError("connection_error",
                          <<"Failed to connect to the target server. Check the URL and try again.">>,
                          502, NoExtra))
  ELSE IF \E b \in Bases(exc.cls) : b = "RequestException"
  THEN ScraperError("http_error",
                    <<"HTTP request failed. Please verify the URL and try again.">>, 502, NoExtra)
  ELSE ScraperError("internal_error",
                    <<"An unexpected error occurred while fetching the URL.">>, 500, NoExtra)

\* codecs Python can look up, among the charset names of the model
KnownCodecs == {"utf-8", "ISO-8859-1"}

\* (True, encoding_to_use)
validate_encoding(charset) ==
  IF charset = "" THEN <<TRUE, "utf-8">>
  ELSE IF charset \in KnownCodecs THEN <<TRUE, charset>>
  ELSE <<TRUE, "utf-8">>

\* content is a parsed JSON value for json, a text otherwise
validate_content_not_empty(content, format_type) ==
  LET is_empty == IF format_type = FmtJson
                  THEN content = <<"null">>
                  ELSE content = << >> \/ Len(Strip(content)) = 0
  IN IF is_empty
     THEN Invalid(ScraperError("empty_response",
                    <<"The target URL returned empty content. Verify the URL is correct.">>,
                    502, NoExtra))
     ELSE Valid

\* ------------------------------------------------------------------------
\* Response bodies.  A body is data followed by pad filler bytes "x";
\* single tells whether the iterator yields it as one chunk (as the mocks of
\* the tests do) or in chunks of at most chunk_size bytes.
\* ------------------------------------------------------------------------
Body(data, pad, single) == [data |-> data, pad |-> pad, single |-> single]
BodyLen(b) == Len(b.data) + b.pad

BytesEmpty == << >>
BytesH1 == <<"<","h","1",">","T","e","s","t","<","/","h","1",">">>
BytesJsonObj == <<"{","\"","a","\"",":","1","}">>
BytesJsonNull == <<"n","u","l","l">>
BytesNotJson == <<"{","b","a","d","}">>
BytesSpaces == <<" ","\n">>
BytesScript == <<"<","s","c","r","i","p","t",">","b","<","/","s","c","r","i","p","t",">">>
BytesBadByte == <<"o","k","0xFF">>
BytesNaN == <<"N","a","N">>
\* arrays opened one inside the other, more than the decoder can nest
BytesDeep == Repeat("[", MaxNesting + 1)

SmallBodies ==
  {Body(d, 0, s) : d \in {BytesEmpty, BytesH1, BytesJsonObj, BytesJsonNull, BytesNotJson,
                          BytesSpaces, BytesScript, BytesBadByte, BytesNaN,
                          BytesDeep},
                   s \in {TRUE}}
  \cup {Body(BytesEmpty, 0, FALSE), Body(BytesH1, 0, FALSE)}
LargeBodies ==
  {Body(<< >>, MAX_SIZE, FALSE), Body(<< >>, MAX_SIZE + 1, FALSE),
   Body(<< >>, MAX_SIZE + 2 * CHUNK_SIZE, FALSE), Body(<< >>, MAX_SIZE + 1, TRUE)}
Bodies == SmallBodies \cup LargeBodies

\* the first n bytes of body b, in the same representation
Take(b, n) ==
  IF n <= Len(b.data)
  THEN [data |-> SubSeq(b.data, 1, n), pad |-> 0]
  ELSE [data |-> b.data, pad |-> n - Len(b.data)]

\* ------------------------------------------------------------------------
\* bytes.decode(encoding, errors="replace")
\* ------------------------------------------------------------------------
\* values of resp.encoding; "" stands for None
Encodings == {"", "utf-8", "ISO-8859-1", "x-unknown-charset"}

DecodeByte(b, encoding) ==
  IF b = "0xFF"
  THEN (IF encoding = "utf-8" THEN "U+FFFD" ELSE "U+00FF")
  ELSE b

\* LookupError for an unknown codec, else the decoded text
DecodeRaises(encoding) == encoding \notin KnownCodecs
Decode(bytes, encoding) ==
  [data |-> [i \in DOMAIN bytes.data |-> DecodeByte(bytes.data[i], encoding)],
   pad |-> bytes.pad]

\* ------------------------------------------------------------------------
\* json.loads on the subset: null, true, false, NaN (which Python's decoder
\* accepts), integers, strings without escapes, arrays, objects.  Text is read through CharAt so that filler is
\* never materialised.
\* ------------------------------------------------------------------------
EOT == "EOT"
TextLen(t) == Len(t.data) + t.pad
CharAt(t, i) ==
  IF i <= Len(t.data) THEN t.data[i]
  ELSE IF i <= TextLen(t) THEN "x" ELSE EOT

RECURSIVE SkipWs(_, _)
SkipWs(t, i) == IF CharAt(t, i) \in WHITESPACE THEN SkipWs(t, i + 1) ELSE i

RECURSIVE ScanDigits(_, _)
ScanDigits(t, i) == IF CharAt(t, i) \in DIGITS THEN ScanDigits(t, i + 1) ELSE i

RECURSIVE ScanString(_, _)
\* index of the closing quote, 0 if the text ends first
ScanString(t, i) ==
  IF CharAt(t, i) = EOT THEN 0
  ELSE IF CharAt(t, i) = "\"" THEN i ELSE ScanString(t, i + 1)

Fail == [ok |-> FALSE, val |-> <<"fail">>, pos |-> 0]
Parsed(v, pos) == [ok |-> TRUE, val |-> v, pos |-> pos]
Literal(t, i, word) == \A k \in DOMAIN word : CharAt(t, i + k - 1) = word[k]
Slice(t, i, j) == [k \in 1..(j - i + 1) |-> CharAt(t, i + k - 1)]

RECURSIVE ParseValue(_, _)
RECURSIVE ParseElements(_, _, _)
RECURSIVE ParseMembers(_, _, _)

\* a value starting at (or after whitespace from) position i
ParseValue(t, i0) ==
  LET i == SkipWs(t, i0)
      c == CharAt(t, i)
  IN CASE c = "n" -> IF Literal(t, i, <<"n","u","l","l">>)
                     THEN Parsed(<<"null">>, i + 4) ELSE Fail
       [] c = "t" -> IF Literal(t, i, <<"t","r","u","e">>)
                     THEN Parsed(<<"true">>, i + 4) ELSE Fail
       [] c = "f" -> IF Literal(t, i, <<"f","a","l","s","e">>)
                     THEN Parsed(<<"false">>, i + 5) ELSE Fail
       [] c = "N" -> IF Literal(t, i, <<"N","a","N">>)
                     THEN Parsed(<<"nan">>, i + 3) ELSE Fail
       [] c \in DIGITS -> Parsed(<<"num", Slice(t, i, ScanDigits(t, i) - 1)>>, ScanDigits(t, i))
       [] c = "\"" -> IF ScanString(t, i + 1) = 0 THEN Fail
                      ELSE Parsed(<<"str", Slice(t, i + 1, ScanString(t, i + 1) - 1)>>,
                                  ScanString(t, i + 1) + 1)
       [] c = "[" -> IF CharAt(t, SkipWs(t, i + 1)) = "]"
                     THEN Parsed(<<"arr", << >> >>, SkipWs(t, i + 1) + 1)
                     ELSE ParseElements(t, i + 1, << >>)
       [] c = "{" -> IF CharAt(t, SkipWs(t, i + 1)) = "}"
                     THEN Parsed(<<"obj", << >> >>, SkipWs(t, i + 1) + 1)
                     ELSE ParseMembers(t, i + 1, << >>)
       [] OTHER -> Fail

ParseElements(t, i, acc) ==
  LET v == ParseValue(t, i)
      j == SkipWs(t, v.pos)
  IN IF ~ v.ok THEN Fail
     ELSE IF CharAt(t, j) = "," THEN ParseElements(t, j + 1, Append(acc, v.val))
     ELSE IF CharAt(t, j) = "]" THEN Parsed(<<"arr", Append(acc, v.val)>>, j + 1)
     ELSE Fail

ParseMembers(t, i0, acc) ==
  LET i == SkipWs(t, i0)
      q == IF CharAt(t, i) = "\"" THEN ScanString(t, i + 1) ELSE 0
      key == Slice(t, i + 1, q - 1)
      colon == SkipWs(t, q + 1)
      v == ParseValue(t, colon + 1)
      j == SkipWs(t, v.pos)
  IN IF q = 0 \/ CharAt(t, colon) # ":" THEN Fail
     ELSE IF ~ v.ok THEN Fail
     ELSE IF CharAt(t, j) = "," THEN ParseMembers(t, j + 1, Append(acc, <<key, v.val>>))
     ELSE IF CharAt(t, j) = "}" THEN Parsed(<<"obj", Append(acc, <<key, v.val>>)>>, j + 1)
     ELSE Fail

RECURSIVE OpenArrays(_, _)
\* how many arrays the text opens before anything else
OpenArrays(t, i) == IF CharAt(t, SkipWs(t, i)) = "[" THEN 1 + OpenArrays(t, SkipWs(t, i) + 1) ELSE 0

\* the decoder recurses once per nested array and raises RecursionError when
\* the interpreter's stack is used up
JsonTooDeep(t) == OpenArrays(t, 1) > MaxNesting

\* json.loads(text): the parsed value, or not ok for JSONDecodeError
JsonLoads(t) ==
  LET v == ParseValue(t, 1)
  IN IF v.ok /\ CharAt(t, SkipWs(t, v.pos)) = EOT THEN v ELSE Fail

\* ------------------------------------------------------------------------
\* BeautifulSoup(text, "html.parser"), decompose of script / style / nav /
\* footer / header, get_text(separator=" ", strip=True)
\* ------------------------------------------------------------------------
REMOVED_TAGS == {<<"s","c","r","i","p","t">>, <<"s","t","y","l","e">>, <<"n","a","v">>,
                 <<"f","o","o","t","e","r">>, <<"h","e","a","d","e","r">>}

RECURSIVE FindFrom(_, _, _)
\* least j >= i with s[j] = c, or 0
FindFrom(s, c, i) ==
  IF i > Len(s) THEN 0 ELSE IF s[i] = c THEN i ELSE FindFrom(s, c, i + 1)

RECURSIVE NameEnd(_, _)
\* end of the tag name that starts at position i of tag body s
NameEnd(s, i) ==
  IF i > Len(s) \/ s[i] \in WHITESPACE \cup {"/"} THEN i - 1 ELSE NameEnd(s, i + 1)

IsClosing(tag) == tag # << >> /\ tag[1] = "/"
TagName(tag) ==
  LET from == IF IsClosing(tag) THEN 2 ELSE 1
  IN Lower(SubSeq(tag, from, NameEnd(tag, from)))

RECURSIVE TextNodes(_, _, _, _)
\* the stripped, non-empty text nodes of s from position i on, outside removed
\* elements; skip is the removed element being skipped, << >> if none
TextNodes(s, i, skip, acc) ==
  IF i > Len(s) THEN acc
  ELSE IF s[i] = "<" /\ FindFrom(s, ">", i) # 0
       THEN LET j == FindFrom(s, ">", i)
                tag == SubSeq(s, i + 1, j - 1)
                name == TagName(tag)
            IN IF skip = << >>
               THEN TextNodes(s, j + 1,
                              IF ~ IsClosing(tag) /\ name \in REMOVED_TAGS THEN name ELSE << >>,
                              acc)
               ELSE TextNodes(s, j + 1,
                              IF IsClosing(tag) /\ name = skip THEN << >> ELSE skip, acc)
       ELSE LET nxt == FindFrom(s, "<", i + 1)
                last == IF nxt = 0 THEN Len(s) ELSE nxt - 1
                node == Strip(SubSeq(s, i, last))
            IN TextNodes(s, last + 1, skip,
                         IF skip = << >> /\ node # << >> THEN Append(acc, node) ELSE acc)

RECURSIVE Join(_)
Join(nodes) ==
  IF nodes = << >> THEN << >>
  ELSE IF Len(nodes) = 1 THEN nodes[1]
  ELSE nodes[1] \o <<" ">> \o Join(Tail(nodes))

\* filler is plain text without markup: it is its own visible text
GetText(t) ==
  IF t.pad > 0 /\ t.data = << >> THEN t
  ELSE [data |-> Join(TextNodes(t.data, 1, << >>, << >>)), pad |-> 0]

\* ------------------------------------------------------------------------
\* State
\* ------------------------------------------------------------------------
VARIABLES
  url,        \* local_scrape: the url argument, stripped once validated
  format,     \* local_scrape: the format argument
  pc,         \* local_scrape: position in the function
  stages,     \* history: the stages of local_scrape entered so far, in order
  netCalls,   \* history: outbound HTTP requests sent for this call
  cur,        \* URL of the most recent outbound request
  hops,       \* redirects followed by requests.get for this call
  location,   \* the Location target of the most recent 3xx answer, << >> if none
  resp,       \* the response object returned by requests.get
  remaining,  \* bytes of the body not yet yielded by iter_content
  content,    \* len(content), the bytearray accumulated so far
  lastChunk,  \* size of the chunk most recently appended to content
  chunks,     \* history: chunks obtained from iter_content
  text,       \* the decoded body
  outcome,    \* how the call ended: an exception raised or a value returned
  call,       \* taxonomy: the most recent call of a scraper_errors.py function or
              \* construction of a scraper.py exception, with its result
  errPrev,    \* taxonomy: code and status of the last error constructed before call
  request,    \* endpoint: the request most recently handled
  response,   \* endpoint: the response to it
  evaluated,  \* endpoint: the stages evaluated for it, in order
  rateCount,  \* the rate-limit counter store, by caller identity
  max_retries,     \* retry_with_backoff: the max_retries argument
  base_delay,      \* retry_with_backoff: the base_delay argument
  attempt,         \* wrapper: the loop variable
  last_exception,  \* wrapper: the exception most recently caught
  invocations,     \* history: how many times func has been invoked
  sleeps,          \* history: the delays passed to time.sleep, in order
  retryPc,         \* wrapper: position in the function
  retryOutcome,    \* how the wrapper ended
  elapsed,         \* fetch timing: seconds since requests.get was called
  timedPc,         \* fetch timing: position in local_scrape
  timedChunks,     \* fetch timing: chunks received so far
  timedOutcome,    \* fetch timing: how the call ended
  ADMIN_KEY,       \* data_backup: the configured ADMIN_API_KEY
  files,           \* data_backup: content of each data file in DATA_DIR
  checksums,       \* data_backup: content of CHECKSUM_FILE
  backupDir,       \* data_backup: the entries of BACKUP_DIR, by name
  today,           \* data_backup: the clock, in days
  backupPc,        \* create_backup: position in the function
  timestamp,       \* create_backup: name of the backup being made
  raced,           \* history: backups during whose making a data file was written
  adminResp        \* data_backup: the response to the most recent request

scrapeVars == <<url, format, pc, stages, netCalls, cur, hops, location, resp, remaining,
                content, lastChunk, chunks, text, outcome>>
errVars == <<call, errPrev>>
gateVars == <<request, response, evaluated, rateCount>>
retryVars == <<max_retries, base_delay, attempt, last_exception, invocations, sleeps,
               retryPc, retryOutcome>>
timedVars == <<elapsed, timedPc, timedChunks, timedOutcome>>
backupVars == <<ADMIN_KEY, files, checksums, backupDir, today, backupPc, timestamp, raced,
                adminResp>>
vars == <<scrapeVars, errVars, gateVars, retryVars, timedVars, backupVars>>

\* ------------------------------------------------------------------------
\* wattnode/services/scraper.py : local_scrape
\* ------------------------------------------------------------------------
FormatInputs == {FmtText, FmtHtml, FmtJson, FmtXml}
\* status codes of terminal responses
Statuses == {199, 200, 299, 300, 304, 404, 503}

NoResult == <<"none">>
NoBody == Body(<< >>, 0, TRUE)
NoResp == [status_code |-> 0, encoding |-> "", body |-> NoBody]
NoText == [data |-> << >>, pad |-> 0]
Pending == [kind |-> "none", exc |-> NoError, result |-> NoResult]
Raise(exc) == [kind |-> "raised", exc |-> exc, result |-> NoResult]
Return(result) == [kind |-> "returned", exc |-> NoError, result |-> result]

Last(s) == s[Len(s)]
Enter(stage) == IF stages # << >> /\ Last(stages) = stage THEN stages ELSE Append(stages, stage)
Min2(a, b) == IF a < b THEN a ELSE b

\* requests can only send to schemes it has a connection adapter for
HasAdapter(u) ==
  StartsWith(Lower(Prefix(u, 8)), HTTP_PREFIX) \/ StartsWith(Lower(Prefix(u, 8)), HTTPS_PREFIX)

\* line 258: resp.status_code < 200 or resp.status_code >= 300
StatusRejected(status_code) == status_code < 200 \/ status_code >= 300

\* line 268: len(content) > MAX_SIZE
ExceedsMaxSize_atLimit(size) == size >= MAX_SIZE
ExceedsMaxSize(size) == size > MAX_SIZE

ScrapeInit ==
  /\ url \in UrlInputs
  /\ format \in FormatInputs
  /\ pc = "validate"
  /\ stages = << >>
  /\ netCalls = 0
  /\ cur = << >>
  /\ hops = 0
  /\ location = << >>
  /\ resp = NoResp
  /\ remaining = 0
  /\ content = 0
  /\ lastChunk = 0
  /\ chunks = 0
  /\ text = NoText
  /\ outcome = Pending

\* lines 221-223: _validate_url(url); url = url.strip()
Validate ==
  /\ pc = "validate"
  /\ stages' = Enter("validate")
  /\ IF _validate_url(url) # NoError
     THEN /\ outcome' = Raise(_validate_url(url))
          /\ pc' = "done"
          /\ url' = url
     ELSE /\ url' = Strip(url)
          /\ pc' = "get"
          /\ outcome' = outcome
  /\ UNCHANGED <<format, netCalls, cur, hops, location, resp, remaining, content, lastChunk,
                 chunks, text>>

\* lines 232-240: requests.get(url, ..., allow_redirects=True) sends the request
Get ==
  /\ pc = "get"
  /\ stages' = Enter("get")
  /\ netCalls' = netCalls + 1
  /\ cur' = url
  /\ pc' = "await"
  /\ UNCHANGED <<url, format, hops, location, resp, remaining, content, lastChunk,
                 chunks, text, outcome>>

GetRaises_retry(exc) ==
  /\ pc = "await"
  /\ pc' = "get"
  /\ UNCHANGED <<url, format, stages, netCalls, cur, hops, location, resp, remaining, content,
                 lastChunk, chunks, text, outcome>>

\* lines 241-255: requests.get raises
GetRaises(exc) ==
  /\ pc = "await"
  /\ outcome' = Raise(MapGetException(exc))
  /\ pc' = "done"
  /\ UNCHANGED <<url, format, stages, netCalls, cur, hops, location, resp, remaining, content,
                 lastChunk, chunks, text>>

\* line 238: the server answers 3xx with a Location and requests follows it
GetRedirects(target) ==
  /\ pc = "await"
  /\ hops < MaxChain
  /\ location' = target
  /\ IF HasAdapter(target)
     THEN /\ hops' = hops + 1
          /\ netCalls' = netCalls + 1
          /\ cur' = target
          /\ UNCHANGED <<pc, outcome>>
     ELSE /\ outcome' = Raise(MapGetException(Raised("InvalidSchema", <<"No connection adapters">>)))
          /\ pc' = "done"
          /\ UNCHANGED <<hops, netCalls, cur>>
  /\ UNCHANGED <<url, format, stages, resp, remaining, content, lastChunk, chunks, text>>

\* line 233: requests.get returns the terminal response
GetResponds(status) ==
  /\ pc = "await"
  /\ resp' = [NoResp EXCEPT !.status_code = status]
  /\ pc' = "status"
  /\ UNCHANGED <<url, format, stages, netCalls, cur, hops, location, remaining, content,
                 lastChunk, chunks, text, outcome>>

\* lines 257-263: the status check; on success the body stream is opened
CheckStatus(body) ==
  /\ pc = "status"
  /\ stages' = Enter("status")
  /\ IF StatusRejected(resp.status_code)
     THEN /\ outcome' = Raise(HTTPError(resp.status_code))
          /\ pc' = "done"
          /\ UNCHANGED <<resp, remaining>>
     ELSE /\ resp' = [resp EXCEPT !.body = body]
          /\ remaining' = BodyLen(body)
          /\ pc' = "read"
          /\ outcome' = outcome
  /\ UNCHANGED <<url, format, netCalls, cur, hops, location, content, lastChunk, chunks,
                 text>>

\* lines 265-270: one iteration of the loop over resp.iter_content(8192)
ReadChunk ==
  /\ pc = "read"
  /\ stages' = Enter("read")
  /\ IF remaining = 0 /\ ~ (resp.body.single /\ chunks = 0)
     THEN /\ pc' = "empty"
          /\ UNCHANGED <<remaining, content, lastChunk, chunks, outcome>>
     ELSE LET n == IF resp.body.single THEN remaining ELSE Min2(remaining, CHUNK_SIZE)
          IN /\ chunks' = chunks + 1
             /\ remaining' = remaining - n
             /\ IF n > 0
                THEN /\ content' = content + n
                     /\ lastChunk' = n
                     /\ IF ExceedsMaxSize(content + n)
                        THEN /\ outcome' = Raise(ResponseTooLargeError(content + n))
                             /\ pc' = "done"
                        ELSE UNCHANGED <<outcome, pc>>
                ELSE UNCHANGED <<content, lastChunk, outcome, pc>>
  /\ UNCHANGED <<url, format, netCalls, cur, hops, location, resp, text>>

\* lines 273-275: iter_content raises while streaming
ReadRaises(exc) ==
  /\ pc = "read"
  /\ stages' = Enter("read")
  /\ outcome' = Raise(ParsingError(<<"failed to read response body">>))
  /\ pc' = "done"
  /\ UNCHANGED <<url, format, netCalls, cur, hops, location, resp, remaining, content, lastChunk,
                 chunks, text>>

\* the empty check with the raise not leaving the function
EmptyCheck_continues ==
  /\ pc = "empty"
  /\ stages' = Enter("empty")
  /\ outcome' = (IF content = 0 THEN Raise(EmptyResponseError) ELSE outcome)
  /\ pc' = "decode"
  /\ UNCHANGED <<url, format, netCalls, cur, hops, location, resp, remaining, content, lastChunk,
                 chunks, text>>

\* lines 277-280
EmptyCheck ==
  /\ pc = "empty"
  /\ stages' = Enter("empty")
  /\ IF content = 0
     THEN outcome' = Raise(EmptyResponseError) /\ pc' = "done"
     ELSE outcome' = outcome /\ pc' = "decode"
  /\ UNCHANGED <<url, format, netCalls, cur, hops, location, resp, remaining, content, lastChunk,
                 chunks, text>>

\* lines 282-288; enc is the value of resp.encoding
DecodeBody(enc) ==
  LET encoding == IF enc = "" THEN "utf-8" ELSE enc IN
  /\ pc = "decode"
  /\ stages' = Enter("decode")
  /\ resp' = [resp EXCEPT !.encoding = enc]
  /\ IF DecodeRaises(encoding)
     THEN /\ outcome' = Raise(ParsingError(<<"failed to decode response with encoding '",
                                             encoding, "'">>))
          /\ pc' = "done"
          /\ text' = text
     ELSE /\ text' = Decode(Take(resp.body, content), encoding)
          /\ pc' = "format"
          /\ outcome' = outcome
  /\ UNCHANGED <<url, format, netCalls, cur, hops, location, remaining, content, lastChunk, chunks>>

\* lines 290-314
FormatOutput ==
  /\ pc = "format"
  /\ ~ (format = FmtJson /\ JsonTooDeep(text))
  /\ stages' = Enter("format")
  /\ pc' = "done"
  /\ outcome' = IF format = FmtHtml THEN Return(text)
                ELSE IF format = FmtJson
                     THEN (IF JsonLoads(text).ok THEN Return(JsonLoads(text).val)
                           ELSE Raise(InvalidJSONError))
                     ELSE Return(GetText(text))
  /\ UNCHANGED <<url, format, netCalls, cur, hops, location, resp, remaining, content, lastChunk,
                 chunks, text>>

\* lines 309-311: the parser raises something other than JSONDecodeError;
\* json.loads does so for a text nested too deep
ParseExceptions == {Raised("RecursionError", <<"maximum recursion depth exceeded">>)}
FormatRaises(exc) ==
  /\ pc = "format"
  /\ format # FmtHtml
  /\ format = FmtJson => JsonTooDeep(text)
  /\ stages' = Enter("format")
  /\ pc' = "done"
  /\ outcome' = Raise(ParsingError(exc.message))
  /\ UNCHANGED <<url, format, netCalls, cur, hops, location, resp, remaining, content, lastChunk,
                 chunks, text>>

ScrapeNext ==
  \/ Validate
  \/ Get
  \/ \E exc \in GetExceptions : GetRaises(exc)
  \/ \E target \in RedirectTargets : GetRedirects(target)
  \/ \E status \in Statuses : GetResponds(status)
  \/ \E body \in Bodies : CheckStatus(body)
  \/ ReadChunk
  \/ \E exc \in ReadExceptions : ReadRaises(exc)
  \/ EmptyCheck
  \/ \E enc \in Encodings : DecodeBody(enc)
  \/ FormatOutput
  \/ \E exc \in ParseExceptions : FormatRaises(exc)

\* ------------------------------------------------------------------------
\* The error taxonomy exercised function by function: every function of
\* scraper_errors.py applied to inputs, every exception of scraper.py
\* constructed.
\* ------------------------------------------------------------------------
Summary(code, status) == [code |-> code, status |-> status]
NoSummary == Summary("", 0)
NoCall == [fn |-> "", arg |-> << >>, valid |-> TRUE, error |-> NoScraperError,
           value |-> << >>]

ErrInit ==
  /\ call = NoCall
  /\ errPrev = NoSummary

\* the call is recorded; the error of the previous call, if any, becomes errPrev
Recorded(fn, arg, valid, error, value) ==
  /\ call' = [fn |-> fn, arg |-> arg, valid |-> valid, error |-> error, value |-> value]
  /\ errPrev' = IF call.error.error_code # ""
                THEN Summary(call.error.error_code, call.error.status_code)
                ELSE errPrev

RecordedResult(fn, arg, result) == Recorded(fn, arg, result.valid, result.error, << >>)
RecordedError(fn, arg, error) == Recorded(fn, arg, FALSE, error, << >>)

ErrUrlInputs == {UrlEmpty, UrlBlank, UrlNoScheme, UrlFtp, UrlOk, UrlUpperPadded, UrlCred,
                 UrlAtInPath, UrlMaxLen, UrlTooLong, UrlCredTooLong, UrlNested}
ErrFormatInputs == {FmtNone, FmtText, FmtHtml, FmtJson, FmtXml, FmtUpperText}
ErrStatuses == {100, 199, 200, 204, 299, 300, 304, 399, 400, 401, 403, 404, 418, 429,
                499, 500, 503, 599, 600}
ErrCredentials == {<< >>, <<" ">>, <<"k">>}
ErrExceptions ==
  {Raised(c, t) : c \in {"SSLError", "ConnectTimeout", "ReadTimeout", "ConnectionError",
                         "InvalidSchema", "ValueError"},
                  t \in ExcTexts}
  \cup {Raised("InvalidSchema", <<"No connection adapters were found">>),
        Raised("ChunkedEncodingError", <<"Connection broken">>)}
ErrSizes == {0, MAX_SIZE - 1, MAX_SIZE, MAX_SIZE + 1}
\* (content, format_type) pairs: texts for text and html, parsed values for json
ErrContents ==
  ({<< >>, BytesSpaces, BytesH1, BytesJsonNull} \X {FmtText, FmtHtml})
  \cup ({<<"null">>, <<"num", <<"1">> >>, <<"str", << >> >>} \X {FmtJson})

CallValidateUrl(u) == RecordedResult("validate_url", u, validate_url(u))
CallValidateFormat(f) == RecordedResult("validate_format", f, validate_format(f))
CallValidatePaymentParams(k, w, t) ==
  RecordedResult("validate_payment_params", <<k, w, t>>, validate_payment_params(k, w, t))
CallNetworkErrorToScraperError(exc) ==
  RecordedError("network_error_to_scraper_error", exc, network_error_to_scraper_error(exc))
\* the except clauses of local_scrape applied to what requests.get raised
CallMapGetException(exc) ==
  LET raised == MapGetException(exc)
  IN Recorded("MapGetException", exc, FALSE,
              ScraperError(raised.error_code, raised.message, raised.status_code, NoExtra),
              raised)
CallContentParsingError(f) ==
  RecordedError("content_parsing_error", f, content_parsing_error(f))
CallValidateResponseSize(n) ==
  RecordedResult("validate_response_size", n, validate_response_size(n, MAX_SIZE))
CallValidateHttpStatus(status) ==
  RecordedResult("validate_http_status", status, validate_http_status(status))
CallValidateEncoding(charset) ==
  Recorded("validate_encoding", charset, validate_encoding(charset)[1], NoScraperError,
           validate_encoding(charset)[2])
CallValidateContentNotEmpty(c, f) ==
  RecordedResult("validate_content_not_empty", <<c, f>>, validate_content_not_empty(c, f))
CallHandleRedirectError(reason) ==
  RecordedError("handle_redirect_error", reason, handle_redirect_error(reason))
CallHandleTooManyRedirects ==
  RecordedError("handle_too_many_redirects", << >>, handle_too_many_redirects)

\* the exceptions wattnode/services/scraper.py constructs
ScraperExceptions ==
  {InvalidURLError(<<"URL is required">>),
   InvalidURLError(<<"URL must start with http:// or https://">>),
   TimeoutError_, SSLError, DNSError, ConnectionRefusedError_, HostUnreachableError,
   ScraperException(<<"Failed to connect to the target server. Check the URL and try again.">>,
                    "connection_error", 502),
   ScraperException(<<"HTTP request failed. Please verify the URL and try again.">>,
                    "connection_error", 502),
   EmptyResponseError, InvalidJSONError,
   ResponseTooLargeError(MAX_SIZE + 1),
   ParsingError(<<"failed to read response body">>),
   ParsingError(<<"failed to decode response with encoding '", "x-unknown-charset", "'">>),
   ParsingError(<<"maximum recursion depth exceeded">>)}
  \cup {HTTPError(status) : status \in {199, 300, 404, 503}}

ConstructException(exc) ==
  Recorded(exc.cls, << >>, FALSE,
           ScraperError(exc.error_code, exc.message, exc.status_code, NoExtra), exc)

ErrNext ==
  \/ \E u \in ErrUrlInputs : CallValidateUrl(u)
  \/ \E f \in ErrFormatInputs : CallValidateFormat(f)
  \/ \E k, w, t \in ErrCredentials : CallValidatePaymentParams(k, w, t)
  \/ \E exc \in ErrExceptions : CallNetworkErrorToScraperError(exc)
  \/ \E exc \in ErrExceptions : CallMapGetException(exc)
  \/ \E f \in {FmtText, FmtHtml, FmtJson} : CallContentParsingError(f)
  \/ \E n \in ErrSizes : CallValidateResponseSize(n)
  \/ \E status \in ErrStatuses : CallValidateHttpStatus(status)
  \/ \E charset \in Encodings : CallValidateEncoding(charset)
  \/ \E cf \in ErrContents : CallValidateContentNotEmpty(cf[1], cf[2])
  \/ \E reason \in {ReasonBlocked, ReasonOther} : CallHandleRedirectError(reason)
  \/ CallHandleTooManyRedirects
  \/ \E exc \in ScraperExceptions : ConstructException(exc)

\* ------------------------------------------------------------------------
\* The /api/v1/scrape request handler.  Its source file is not part of this
\* tree; the order of its stages is the one tests/test_scrape*.py observe
\* (a request with no credentials at all is answered missing_url,
\* invalid_url, invalid_format or url_blocked), the Access Gate follows the
\* design document.
\* ------------------------------------------------------------------------
\* requests allowed per window, per API key and per IP address
QuotaKey == 2
QuotaIp == 2

KeyActive == <<"k","1">>
KeyInactive == <<"k","2">>
KeyUnknown == <<"k","9">>
\* the key directory: key -> status
KeyDirectory == [k \in {KeyActive, KeyInactive} |->
                   IF k = KeyActive THEN [tier |-> "basic", status |-> "active"]
                   ELSE [tier |-> "basic", status |-> "inactive"]]

\* the key data, or NoKeyData for a key that is unknown or inactive
NoKeyData == [tier |-> "", status |-> ""]
_validate_api_key_acceptInactive(key) ==
  IF key \in DOMAIN KeyDirectory THEN KeyDirectory[key] ELSE NoKeyData
_validate_api_key(key) ==
  IF key \in DOMAIN KeyDirectory /\ KeyDirectory[key].status = "active"
  THEN KeyDirectory[key]
  ELSE NoKeyData

\* hosts the safety policy blocks
UrlLocalhost == <<"h","t","t","p",":","/","/","l","o","c","a","l","h","o","s","t">>
_validate_scrape_url(u) == Strip(u) # UrlLocalhost

Identities == {"key", "ip"}
Identity(req) == IF Present(req.api_key) THEN "key" ELSE "ip"
Quota(identity) == IF identity = "key" THEN QuotaKey ELSE QuotaIp

NoStageError == NoScraperError
\* the error stage st answers request req with, NoStageError if it passes;
\* env is what the external collaborators answer for this request
StageError(st, req, env, counters) ==
  CASE st = "validate_url" -> validate_url(req.url).error
    [] st = "validate_format" -> validate_format(req.format).error
    [] st = "url_policy" ->
         IF _validate_scrape_url(req.url) THEN NoStageError
         ELSE ScraperError("url_blocked", <<"URL is not allowed">>, 400, NoExtra)
    [] st = "authorize" ->
         IF Present(req.api_key)
         THEN (IF _validate_api_key(req.api_key) = NoKeyData
               THEN ScraperError("invalid_api_key", <<"Invalid or inactive API key">>, 401, NoExtra)
               ELSE NoStageError)
         ELSE IF ~ validate_payment_params(req.api_key, req.wallet, req.tx_signature).valid
         THEN validate_payment_params(req.api_key, req.wallet, req.tx_signature).error
         ELSE IF env.payment = "rejected"
         THEN ScraperError("invalid_payment", <<"Payment verification failed">>, 400, NoExtra)
         ELSE IF env.payment = "errored"
         THEN ScraperError("payment_failed", <<"Payment could not be verified">>, 502, NoExtra)
         ELSE NoStageError
    [] st = "rate_limit" ->
         IF counters[Identity(req)] >= Quota(Identity(req))
         THEN ScraperError("rate_limit_exceeded", <<"Rate limit exceeded">>, 429,
                           [retry_after_seconds |-> 60])
         ELSE NoStageError
    [] st = "fetch" -> env.fetch
    [] OTHER -> NoStageError

\* the stages in the order the handler evaluates them
STAGE_SEQUENCE_gateFirst ==
  <<"authorize", "rate_limit", "validate_url", "validate_format", "url_policy", "fetch">>
STAGE_SEQUENCE ==
  <<"validate_url", "validate_format", "url_policy", "authorize", "rate_limit", "fetch">>

RECURSIVE FirstFailingFrom(_, _, _, _)
\* index of the first stage from i on that fails, Len + 1 if none does
FirstFailingFrom(i, req, env, counters) ==
  IF i > Len(STAGE_SEQUENCE) THEN i
  ELSE IF StageError(STAGE_SEQUENCE[i], req, env, counters).error_code # "" THEN i
  ELSE FirstFailingFrom(i + 1, req, env, counters)

FirstFailing(req, env, counters) == FirstFailingFrom(1, req, env, counters)

Success == ScraperError("", << >>, 200, NoExtra)
NoRequest == [url |-> << >>, format |-> << >>, api_key |-> << >>, wallet |-> << >>,
              tx_signature |-> << >>]

Requests ==
  [url : {UrlEmpty, UrlNoScheme, UrlLocalhost, UrlOk},
   format : {FmtNone, FmtXml},
   api_key : {<< >>, KeyActive, KeyInactive, KeyUnknown},
   wallet : {<< >>, <<"w">>},
   tx_signature : {<< >>, <<"s">>}]

\* what the payment verifier and the fetcher answer for a request; the
\* verifier is only asked about a complete wallet / signature pair
Environments(req) ==
  [payment : IF ~ Present(req.api_key) /\ Present(req.wallet) /\ Present(req.tx_signature)
             THEN {"verified", "rejected", "errored"} ELSE {"verified"},
   fetch : {NoStageError, handle_too_many_redirects}]

GateInit ==
  /\ request = NoRequest
  /\ response = Success
  /\ evaluated = << >>
  /\ rateCount = [i \in Identities |-> 0]

\* one request, from arrival to response
Scrape(req, env) ==
  \E k \in {FirstFailing(req, env, rateCount)} :
     /\ request' = req
     /\ evaluated' = SubSeq(STAGE_SEQUENCE, 1, Min2(k, Len(STAGE_SEQUENCE)))
     /\ response' = IF k > Len(STAGE_SEQUENCE) THEN Success
                    ELSE StageError(STAGE_SEQUENCE[k], req, env, rateCount)
     /\ rateCount' = IF \E i \in 1..(k - 1) : STAGE_SEQUENCE[i] = "rate_limit"
                     THEN [rateCount EXCEPT ![Identity(req)] = @ + 1]
                     ELSE rateCount

GateNext ==
  \E req \in Requests : \E env \in Environments(req) : Scrape(req, env)

\* ------------------------------------------------------------------------
\* webhook_enhancements.py : retry_with_backoff.  One call of the wrapper
\* around a function that returns or raises as it pleases.
\* ------------------------------------------------------------------------
BaseDelays == {1, 2, 3}
\* classes of Exception the wrapped function raises
FuncExceptionClasses == {"ConnectionError", "ValueError"}

\* exceptions: what the n-th invocation of func raised, None, and the
\* TypeError of a raise statement given None
NoException == [cls |-> "None", invocation |-> 0]
FuncException(cls, n) == [cls |-> cls, invocation |-> n]
RaiseNoneTypeError == [cls |-> "TypeError", invocation |-> 0]

RetryPending == [kind |-> "none", exc |-> NoException]
RetryReturned == [kind |-> "returned", exc |-> NoException]
RetryRaised(exc) == [kind |-> "raised", exc |-> exc]

RECURSIVE Pow2(_)
Pow2(n) == IF n = 0 THEN 1 ELSE 2 * Pow2(n - 1)

RetryInit ==
  /\ max_retries \in 0..MaxRetries
  /\ base_delay \in BaseDelays
  /\ attempt = 0
  /\ last_exception = NoException
  /\ invocations = 0
  /\ sleeps = << >>
  /\ retryPc = "for"
  /\ retryOutcome = RetryPending

\* line 85: for attempt in range(max_retries); line 103 once the range is
\* used up: raise last_exception
ForAttempt ==
  /\ retryPc = "for"
  /\ IF attempt < max_retries
     THEN retryPc' = "call" /\ retryOutcome' = retryOutcome
     ELSE /\ retryPc' = "done"
          /\ retryOutcome' = RetryRaised(IF last_exception = NoException
                                         THEN RaiseNoneTypeError
                                         ELSE last_exception)
  /\ UNCHANGED <<max_retries, base_delay, attempt, last_exception, invocations, sleeps>>

\* line 87: func returns
FuncReturns ==
  /\ retryPc = "call"
  /\ invocations' = invocations + 1
  /\ retryOutcome' = RetryReturned
  /\ retryPc' = "done"
  /\ UNCHANGED <<max_retries, base_delay, attempt, last_exception, sleeps>>

FuncRaises_sleepAlways(cls) ==
  /\ retryPc = "call"
  /\ invocations' = invocations + 1
  /\ last_exception' = FuncException(cls, invocations + 1)
  /\ sleeps' = Append(sleeps, base_delay * Pow2(attempt))
  /\ attempt' = attempt + 1
  /\ retryPc' = "for"
  /\ UNCHANGED <<max_retries, base_delay, retryOutcome>>

\* lines 88-101: func raises an Exception; the wrapper sleeps unless this
\* was the last attempt
FuncRaises(cls) ==
  /\ retryPc = "call"
  /\ invocations' = invocations + 1
  /\ last_exception' = FuncException(cls, invocations + 1)
  /\ sleeps' = IF attempt < max_retries - 1
               THEN Append(sleeps, base_delay * Pow2(attempt))
               ELSE sleeps
  /\ attempt' = attempt + 1
  /\ retryPc' = "for"
  /\ UNCHANGED <<max_retries, base_delay, retryOutcome>>

\* line 88: except Exception does not catch a BaseException such as
\* KeyboardInterrupt, which leaves the wrapper at once
FuncRaisesBaseException ==
  /\ retryPc = "call"
  /\ invocations' = invocations + 1
  /\ retryOutcome' = RetryRaised(FuncException("KeyboardInterrupt", invocations + 1))
  /\ retryPc' = "done"
  /\ UNCHANGED <<max_retries, base_delay, attempt, last_exception, sleeps>>

RetryNext ==
  \/ ForAttempt
  \/ FuncReturns
  \/ \E cls \in FuncExceptionClasses : FuncRaises(cls)
  \/ FuncRaisesBaseException

RetryIdle ==
  /\ max_retries = 0 /\ base_delay = 0 /\ attempt = 0 /\ last_exception = NoException
  /\ invocations = 0 /\ sleeps = << >> /\ retryPc = "off" /\ retryOutcome = RetryPending

\* ------------------------------------------------------------------------
\* wattnode/services/scraper.py : local_scrape, the time its fetch takes.
\* requests applies timeout=TIMEOUT to the wait for the connection and the
\* response headers and to each wait for more bytes of the body, one wait at
\* a time.
\* ------------------------------------------------------------------------
\* seconds a server lets pass before it sends what is waited for
Waits == {0, 1, TIMEOUT - 1, TIMEOUT}

TimedInit ==
  /\ elapsed = 0
  /\ timedPc = "get"
  /\ timedChunks = 0
  /\ timedOutcome = Pending

\* lines 233-240: the response headers arrive within the timeout
TimedGetResponds(wait) ==
  /\ timedPc = "get"
  /\ elapsed' = elapsed + wait
  /\ timedPc' = "read"
  /\ UNCHANGED <<timedChunks, timedOutcome>>

\* lines 244-246: nothing arrives for TIMEOUT seconds, requests raises Timeout
TimedGetTimesOut ==
  /\ timedPc = "get"
  /\ elapsed' = elapsed + TIMEOUT
  /\ timedOutcome' = Raise(MapGetException(Raised("ReadTimeout", <<"Read timed out.">>)))
  /\ timedPc' = "done"
  /\ UNCHANGED timedChunks

\* lines 265-270: the next chunk arrives within the timeout
TimedReadChunk(wait) ==
  /\ timedPc = "read"
  /\ timedChunks < MaxTimedChunks
  /\ elapsed' = elapsed + wait
  /\ timedChunks' = timedChunks + 1
  /\ UNCHANGED <<timedPc, timedOutcome>>

\* lines 273-275: no byte arrives for TIMEOUT seconds while the body is read;
\* iter_content raises and except Exception turns it into ParsingError
TimedReadTimesOut ==
  /\ timedPc = "read"
  /\ elapsed' = elapsed + TIMEOUT
  /\ timedOutcome' = Raise(ParsingError(<<"failed to read response body">>))
  /\ timedPc' = "done"
  /\ UNCHANGED timedChunks

\* line 265: the body ends, the loop is left
TimedBodyEnds ==
  /\ timedPc = "read"
  /\ timedPc' = "done"
  /\ timedOutcome' = Return(NoText)
  /\ UNCHANGED <<elapsed, timedChunks>>

TimedNext ==
  \/ \E wait \in Waits : TimedGetResponds(wait)
  \/ TimedGetTimesOut
  \/ \E wait \in Waits : TimedReadChunk(wait)
  \/ TimedReadTimesOut
  \/ TimedBodyEnds

TimedIdle ==
  elapsed = 0 /\ timedPc = "off" /\ timedChunks = 0 /\ timedOutcome = Pending

\* ------------------------------------------------------------------------
\* data_backup.py.  Time is counted in days; a timestamp name is the day
\* the backup was made, any other entry of BACKUP_DIR has a negative
\* number for a name.  A checksum entry keeps its sha256 only.
\* ------------------------------------------------------------------------
MAX_BACKUPS == 7
DATA_FILES == <<"contributor_reputation.json", "pr_payouts.json", "pr_reviews.json",
                "reputation.json", "security_logs.json", "pr_rate_limits.json",
                "wsi_usage.json">>
DataFileSet == Range(DATA_FILES)

\* file contents; Absent for a file that does not exist
Absent == "absent"
Contents == {"v1", "v2"}
\* the data files that exist, and the one the application keeps rewriting
ExistingFiles == {"pr_payouts.json", "reputation.json"}
WrittenFiles == {"reputation.json"}

Restrict(f, S) == [x \in S |-> f[x]]

\* lines 59-68: the digest of the content, None for a missing file
NoChecksum == <<"none">>
compute_checksum(fileContent) ==
  IF fileContent = Absent THEN NoChecksum ELSE <<"sha256", fileContent>>

\* lines 71-83
generate_checksums(fs) ==
  [f \in {g \in DataFileSet : compute_checksum(fs[g]) # NoChecksum} |->
     [sha256 |-> compute_checksum(fs[f])]]

\* lines 108-142: status per file
verify_integrity(fs, saved) ==
  LET current == generate_checksums(fs)
  IN [f \in DataFileSet |->
        IF fs[f] = Absent THEN "missing"
        ELSE IF f \notin DOMAIN saved THEN "no_baseline"
        ELSE IF f \notin DOMAIN current THEN "error"
        ELSE IF current[f].sha256 = saved[f].sha256 THEN "ok"
        ELSE "modified"]

\* an entry of BACKUP_DIR: a directory with its .gz files (by data file name)
\* and its checksums.json if it has one, or a plain file; at_backup is
\* history, the data files as they were when create_backup began
NoFiles == [f \in {} |-> Absent]
Directory(gz, has_sums, sums, at_backup) ==
  [dir |-> TRUE, gz |-> gz, has_sums |-> has_sums, sums |-> sums, at_backup |-> at_backup]
PlainFile == [dir |-> FALSE, gz |-> NoFiles, has_sums |-> FALSE, sums |-> NoFiles,
              at_backup |-> NoFiles]
ForeignName == 0 - 1
StrayName == ForeignName + 1

\* line 220: datetime.strptime(entry, "%Y%m%d_%H%M%S") succeeds
IsTimestamp(name) == name >= 0

\* sorted() of names: the name that is no timestamp starts with "." and
\* sorts before every timestamp
SortKey(name) == name

rotate_backups_removesUnparsed(entries, day) ==
  LET cutoff == day - MAX_BACKUPS
      removed == {n \in DOMAIN entries :
                    entries[n].dir /\ (~ IsTimestamp(n) \/ n < cutoff)}
  IN Restrict(entries, DOMAIN entries \ removed)

\* lines 206-229: the entries left by rotate_backups
rotate_backups(entries, day) ==
  LET cutoff == day - MAX_BACKUPS
      removed == {n \in DOMAIN entries :
                    entries[n].dir /\ IsTimestamp(n) /\ n < cutoff}
  IN Restrict(entries, DOMAIN entries \ removed)

require_admin_key_emptyMatches(key) == key = ADMIN_KEY

\* lines 348-351: whether the decorated endpoint is run
require_admin_key(key) == ~ (ADMIN_KEY = "" \/ key # ADMIN_KEY)

AdminKeys == {"", "s3cret"}
HeaderKeys == {"", "s3cret", "wrong"}

NoResponse ==
  [endpoint |-> "", header |-> "", status |-> 0, success |-> FALSE, timestamp |-> 0,
   files |-> {}, rotated |-> {}]
Unauthorized401(endpoint, key) ==
  [NoResponse EXCEPT !.endpoint = endpoint, !.header = key, !.status = 401]

BackupInit ==
  /\ ADMIN_KEY \in AdminKeys
  /\ files = [f \in DataFileSet |-> IF f \in ExistingFiles THEN "v1" ELSE Absent]
  /\ checksums = NoFiles
  /\ backupDir = (ForeignName :> Directory(NoFiles, FALSE, NoFiles, NoFiles))
                  @@ (StrayName :> PlainFile)
  /\ today = 1
  /\ backupPc = "idle"
  /\ timestamp = 0
  /\ raced = {}
  /\ adminResp = NoResponse

\* time passes
NextDay ==
  /\ backupPc = "idle"
  /\ today < MaxDay
  /\ today' = today + 1
  /\ adminResp' = NoResponse
  /\ UNCHANGED <<ADMIN_KEY, files, checksums, backupDir, backupPc, timestamp, raced>>

\* the application rewrites one of its data files, at any moment
WriteDataFile(f, fileContent) ==
  /\ files[f] # fileContent
  /\ files' = [files EXCEPT ![f] = fileContent]
  /\ raced' = IF backupPc = "checksums" THEN raced \cup {timestamp} ELSE raced
  /\ adminResp' = NoResponse
  /\ UNCHANGED <<ADMIN_KEY, checksums, backupDir, today, backupPc, timestamp>>

\* backups that rotation would keep today
RecentBackups ==
  {n \in DOMAIN backupDir : backupDir[n].dir /\ IsTimestamp(n) /\ n >= today - MAX_BACKUPS}

\* POST /api/v1/backup/create, lines 373-378, and create_backup up to the
\* end of its copy loop, lines 155-177
TriggerBackup(key) ==
  /\ backupPc = "idle"
  /\ IF ~ require_admin_key(key)
     THEN /\ adminResp' = Unauthorized401("create", key)
          /\ UNCHANGED <<backupDir, backupPc, timestamp>>
     ELSE /\ today \notin DOMAIN backupDir
          /\ Cardinality(RecentBackups) < MaxKept
          /\ backupDir' =
               (today :> Directory(Restrict(files, {f \in DataFileSet : files[f] # Absent}),
                                   FALSE, NoFiles, files))
               @@ backupDir
          /\ timestamp' = today
          /\ backupPc' = "checksums"
          /\ adminResp' = [NoResponse EXCEPT !.endpoint = "create", !.header = key]
  /\ UNCHANGED <<ADMIN_KEY, files, checksums, today, raced>>

\* create_backup from generate_checksums to its return, lines 179-203, with
\* rotate_backups, and the response of trigger_backup
CreateBackupFinish ==
  /\ backupPc = "checksums"
  /\ LET sums == generate_checksums(files)
         withSums == [backupDir EXCEPT ![timestamp] =
                        [@ EXCEPT !.has_sums = TRUE, !.sums = sums]]
         kept == rotate_backups(withSums, today)
     IN /\ checksums' = sums
        /\ backupDir' = kept
        /\ raced' = raced \cap DOMAIN kept
        /\ adminResp' = [adminResp EXCEPT !.status = 200, !.success = TRUE,
                                           !.timestamp = timestamp,
                                           !.files = DOMAIN backupDir[timestamp].gz,
                                           !.rotated = DOMAIN withSums \ DOMAIN kept]
  /\ backupPc' = "idle"
  /\ UNCHANGED <<ADMIN_KEY, files, today, timestamp>>

restore_from_backup_copiesNothing(name) ==
  IF name \notin DOMAIN backupDir
  THEN [status |-> 200, success |-> FALSE, restored |-> {}, data |-> files, sums |-> checksums]
  ELSE IF ~ backupDir[name].dir
  THEN [status |-> 500, success |-> FALSE, restored |-> {}, data |-> files, sums |-> checksums]
  ELSE LET entry == backupDir[name]
       IN [status |-> 200, success |-> TRUE, restored |-> DOMAIN entry.gz,
           data |-> files,
           sums |-> IF entry.has_sums THEN entry.sums ELSE checksums]

\* lines 279-319, for the backup of the given name: the response status,
\* result["success"], result["files"], and the data files and checksum
\* file it leaves.  os.listdir of a plain file raises, which the endpoint
\* answers with status 500.
restore_from_backup(name) ==
  IF name \notin DOMAIN backupDir
  THEN [status |-> 200, success |-> FALSE, restored |-> {}, data |-> files, sums |-> checksums]
  ELSE IF ~ backupDir[name].dir
  THEN [status |-> 500, success |-> FALSE, restored |-> {}, data |-> files, sums |-> checksums]
  ELSE LET entry == backupDir[name]
       IN [status |-> 200, success |-> TRUE, restored |-> DOMAIN entry.gz,
           data |-> [f \in DataFileSet |-> IF f \in DOMAIN entry.gz THEN entry.gz[f]
                                           ELSE files[f]],
           sums |-> IF entry.has_sums THEN entry.sums ELSE checksums]

\* lines 268-277: the directory whose name sorts last
MostRecent ==
  LET dirs == {n \in DOMAIN backupDir : backupDir[n].dir}
  IN CHOOSE n \in dirs : \A m \in dirs : SortKey(m) <= SortKey(n)

Restored(key, name) ==
  LET result == restore_from_backup(name)
  IN /\ files' = result.data
     /\ checksums' = result.sums
     /\ adminResp' = [NoResponse EXCEPT !.endpoint = "restore", !.header = key,
                                        !.status = result.status, !.success = result.success,
                                        !.timestamp = name, !.files = result.restored]

\* POST /api/v1/backup/restore with a timestamp, lines 396-402
TriggerRestore(key, name) ==
  /\ backupPc = "idle"
  /\ IF ~ require_admin_key(key)
     THEN adminResp' = Unauthorized401("restore", key) /\ UNCHANGED <<files, checksums>>
     ELSE Restored(key, name)
  /\ UNCHANGED <<ADMIN_KEY, backupDir, today, backupPc, timestamp, raced>>

\* POST /api/v1/backup/restore without a timestamp
TriggerRestoreLatest(key) ==
  /\ backupPc = "idle"
  /\ IF ~ require_admin_key(key)
     THEN adminResp' = Unauthorized401("restore", key) /\ UNCHANGED <<files, checksums>>
     ELSE Restored(key, MostRecent)
  /\ UNCHANGED <<ADMIN_KEY, backupDir, today, backupPc, timestamp, raced>>

BackupNext ==
  \/ NextDay
  \/ \E f \in WrittenFiles, c \in Contents : WriteDataFile(f, c)
  \/ \E key \in HeaderKeys : TriggerBackup(key)
  \/ CreateBackupFinish
  \/ \E key \in HeaderKeys, name \in DOMAIN backupDir \cup {MaxDay + 1} :
       TriggerRestore(key, name)
  \/ \E key \in HeaderKeys : TriggerRestoreLatest(key)

BackupIdle ==
  /\ ADMIN_KEY = "" /\ files = NoFiles /\ checksums = NoFiles /\ backupDir = NoFiles
  /\ today = 0 /\ backupPc = "off" /\ timestamp = 0 /\ raced = {} /\ adminResp = NoResponse

\* ------------------------------------------------------------------------
\* Specifications
\* ------------------------------------------------------------------------
ScrapeIdle ==
  /\ url = << >> /\ format = << >> /\ pc = "off" /\ stages = << >> /\ netCalls = 0
  /\ cur = << >> /\ hops = 0 /\ location = << >> /\ resp = NoResp /\ remaining = 0
  /\ content = 0 /\ lastChunk = 0 /\ chunks = 0 /\ text = NoText /\ outcome = Pending

\* one call of local_scrape
Init == ScrapeInit /\ ErrInit /\ GateInit /\ RetryIdle /\ TimedIdle /\ BackupIdle
Next == ScrapeNext /\ UNCHANGED <<errVars, gateVars, retryVars, timedVars, backupVars>>
Spec == Init /\ [][Next]_vars

\* the functions and exceptions of the error taxonomy, in any order
InitErrors == ScrapeIdle /\ ErrInit /\ GateInit /\ RetryIdle /\ TimedIdle /\ BackupIdle
NextErrors == ErrNext /\ UNCHANGED <<scrapeVars, gateVars, retryVars, timedVars, backupVars>>
SpecErrors == InitErrors /\ [][NextErrors]_vars

\* a sequence of requests to the endpoint
InitGate == ScrapeIdle /\ ErrInit /\ GateInit /\ RetryIdle /\ TimedIdle /\ BackupIdle
NextGate == GateNext /\ UNCHANGED <<scrapeVars, errVars, retryVars, timedVars, backupVars>>
SpecGate == InitGate /\ [][NextGate]_vars

\* one call of a function wrapped by retry_with_backoff
InitRetry == ScrapeIdle /\ ErrInit /\ GateInit /\ RetryInit /\ TimedIdle /\ BackupIdle
NextRetry == RetryNext /\ UNCHANGED <<scrapeVars, errVars, gateVars, timedVars, backupVars>>
SpecRetry == InitRetry /\ [][NextRetry]_vars

\* one fetch of local_scrape against a server that takes its time
InitTimed == ScrapeIdle /\ ErrInit /\ GateInit /\ RetryIdle /\ TimedInit /\ BackupIdle
NextTimed == TimedNext /\ UNCHANGED <<scrapeVars, errVars, gateVars, retryVars, backupVars>>
SpecTimed == InitTimed /\ [][NextTimed]_vars

\* the data files, their backups and the admin endpoints over some days
InitBackup ==
  ScrapeIdle /\ ErrInit /\ GateInit /\ RetryIdle /\ TimedIdle /\ BackupInit
NextBackup ==
  BackupNext /\ UNCHANGED <<scrapeVars, errVars, gateVars, retryVars, timedVars>>
SpecBackup == InitBackup /\ [][NextBackup]_vars

\* ------------------------------------------------------------------------
\* Properties
\* ------------------------------------------------------------------------
Failed == outcome.kind = "raised"
ErrorCode == outcome.exc.error_code

\* C1: while the body of a 2xx response is streamed, the call fails with
\* response_too_large (413, max_bytes = MAX_SIZE, received_bytes = the
\* accumulated count) as soon as the accumulated count exceeds MAX_SIZE and
\* reads nothing more, so the buffer never holds more than MAX_SIZE plus one
\* chunk; a body of exactly MAX_SIZE bytes is not rejected for size.
C1_SizeCapAbortsAtFirstExcess ==
  /\ content - lastChunk <= MAX_SIZE
  /\ (~ resp.body.single => content <= MAX_SIZE + CHUNK_SIZE)
  /\ (content > MAX_SIZE =>
        /\ pc = "done"
        /\ Failed
        /\ ErrorCode = "response_too_large"
        /\ outcome.exc.status_code = 413
        /\ outcome.exc.detail = {<<"max_bytes", MAX_SIZE>>, <<"received_bytes", content>>})
  /\ (Failed /\ ErrorCode = "response_too_large" => content > MAX_SIZE)
  /\ (pc \in {"empty", "decode", "format"} => content <= MAX_SIZE)

C1_Witness ==
  /\ pc = "done"
  /\ ErrorCode = "response_too_large"
  /\ ~ resp.body.single
  /\ chunks = (MAX_SIZE \div CHUNK_SIZE) + 1
  /\ content = MAX_SIZE + 1
  /\ remaining = 0

\* C2: for every URL that is blank, has no http(s) scheme, embeds credentials
\* or is longer than 2048 characters, local_scrape fails with invalid_url or
\* missing_url and sends no outbound request.
C2_NoRequestForInvalidUrl ==
  ~ validate_url(url).valid =>
     /\ netCalls = 0
     /\ pc \in {"validate", "done"}
     /\ (pc = "done" => Failed /\ ErrorCode \in {"invalid_url", "missing_url"})

\* C3: the fetcher never follows a 4th redirect, and a fetch whose redirect
\* chain is longer than MAX_REDIRECTS ends with too_many_redirects (502).
C3_RedirectLimit ==
  /\ hops <= MAX_REDIRECTS
  /\ (pc = "done" /\ hops > MAX_REDIRECTS =>
        Failed /\ ErrorCode = "too_many_redirects" /\ outcome.exc.status_code = 502)

\* C4: no request is ever sent to a redirect target that fails URL
\* validation, and a fetch that met such a target ends with redirect_error
\* (502).
C4_RedirectTargetsRevalidated ==
  /\ (hops > 0 => validate_url(cur).valid)
  /\ (pc = "done" /\ location # << >> /\ ~ validate_url(location).valid =>
        Failed /\ ErrorCode = "redirect_error" /\ outcome.exc.status_code = 502)

\* C5: validate_http_status accepts exactly the codes in [200,300) and
\* rejects every other code with http_error, status 502 and a status_code
\* detail equal to the upstream status.
C5_StatusCheckRejectsOutside2xx ==
  call.fn = "validate_http_status" =>
    IF 200 <= call.arg /\ call.arg < 300
    THEN call.valid
    ELSE /\ ~ call.valid
         /\ call.error.error_code = "http_error"
         /\ call.error.status_code = 502
         /\ call.error.extra_details = [status_code |-> call.arg]

\* the codes of the error code table of the design document
TABLE_CODES ==
  {"missing_url", "invalid_url", "url_blocked", "invalid_format", "missing_payment",
   "invalid_api_key", "invalid_payment", "payment_failed", "rate_limit_exceeded",
   "timeout", "connection_error", "dns_error", "ssl_error", "host_unreachable",
   "redirect_error", "too_many_redirects", "http_error", "response_too_large",
   "empty_response", "invalid_json", "invalid_html", "parsing_error", "internal_error"}

\* C6: every failure of local_scrape is a ScraperException whose code is in
\* the error code table; no exception of another type reaches the caller.
C6_FailuresAreTaxonomyErrors ==
  Failed => outcome.exc.scraper /\ ErrorCode \in TABLE_CODES

\* C7: two errors with the same code carry the same status, missing_payment
\* excepted.
C7_StatusDeterminedByCode ==
  (/\ call.error.error_code # ""
   /\ call.error.error_code = errPrev.code
   /\ call.error.error_code # "missing_payment")
  => call.error.status_code = errPrev.status

STAGE_ORDER == <<"validate", "get", "status", "read", "empty", "decode", "format">>
IsPrefix(s, t) == Len(s) <= Len(t) /\ SubSeq(t, 1, Len(s)) = s
\* the stage in which local_scrape raises each error code
StagesOfCode(code) ==
  CASE code = "invalid_url" -> {"validate"}
    [] code \in {"timeout", "ssl_error", "dns_error", "connection_error",
                 "host_unreachable", ""} -> {"get"}
    [] code = "http_error" -> {"status"}
    [] code = "response_too_large" -> {"read"}
    [] code = "empty_response" -> {"empty"}
    [] code = "invalid_json" -> {"format"}
    [] code = "parsing_error" -> {"read", "decode", "format"}
    [] OTHER -> {}

\* C8: the stages of local_scrape run in the fixed order validate, get,
\* status, read, empty, decode, format; a failure ends the call in the stage
\* that failed (nothing is read after a non-2xx status, nothing is decoded
\* after response_too_large or empty_response), no step follows the end of
\* the call, and content is returned only when every stage has run.
C8_StagesShortCircuit ==
  /\ [](/\ IsPrefix(stages, STAGE_ORDER)
        /\ (Failed => /\ pc = "done"
                      /\ Last(stages) \in StagesOfCode(ErrorCode))
        /\ (Failed /\ ErrorCode = "http_error" => chunks = 0 /\ content = 0)
        /\ (Failed /\ ErrorCode \in {"response_too_large", "empty_response"} =>
              text = NoText /\ resp.encoding = "")
        /\ (outcome.kind = "returned" => pc = "done" /\ stages = STAGE_ORDER)
        /\ (pc = "done" => outcome.kind # "none"))
  /\ [][pc # "done"]_vars

C8_Witness ==
  /\ pc = "done"
  /\ Failed
  /\ ErrorCode = "empty_response"
  /\ stages = <<"validate", "get", "status", "read", "empty">>

\* a request the Access Gate cannot authorize, whatever the verifier says
InvalidKey(req) ==
  /\ Present(req.api_key)
  /\ \/ req.api_key \notin DOMAIN KeyDirectory
     \/ KeyDirectory[req.api_key].status # "active"
Unauthorized(req) ==
  \/ InvalidKey(req)
  \/ ~ Present(req.api_key) /\ ~ (Present(req.wallet) /\ Present(req.tx_signature))
Handled == evaluated # << >>
Evaluated(st) == \E i \in DOMAIN evaluated : evaluated[i] = st
Before(a, b) ==
  \E i, j \in DOMAIN evaluated : i < j /\ evaluated[i] = a /\ evaluated[j] = b

InputsValid(req) ==
  /\ validate_url(req.url).valid
  /\ validate_format(req.format).valid
  /\ _validate_scrape_url(req.url)

IsBlank(x) == \A i \in DOMAIN x : x[i] \in WHITESPACE

PaymentCall == call.fn = "validate_payment_params"
ApiKeyArg == call.arg[1]
WalletArg == call.arg[2]
TxArg == call.arg[3]

\* C11: with no API key, neither wallet nor tx_signature gives
\* missing_payment with status 402 carrying the price and the payment
\* destination, and exactly one of the two gives missing_payment with
\* status 400.
C11_PartialPaymentIs400 ==
  PaymentCall /\ IsBlank(ApiKeyArg) =>
    /\ IsBlank(WalletArg) /\ IsBlank(TxArg) =>
          /\ ~ call.valid
          /\ call.error.error_code = "missing_payment"
          /\ call.error.status_code = 402
          /\ {"price_watt", "payment_to"} \subseteq DOMAIN call.error.extra_details
    /\ IsBlank(WalletArg) # IsBlank(TxArg) =>
          /\ ~ call.valid
          /\ call.error.error_code = "missing_payment"
          /\ call.error.status_code = 400

\* C12: validate_payment_params accepts exactly when the API key is
\* non-blank or both wallet and tx_signature are non-blank; every rejection
\* is missing_payment; with a non-blank API key wallet and tx_signature do
\* not matter.
C12_PaymentAcceptedIffKeyOrPair ==
  PaymentCall =>
    /\ call.valid <=> (~ IsBlank(ApiKeyArg) \/ (~ IsBlank(WalletArg) /\ ~ IsBlank(TxArg)))
    /\ ~ call.valid => call.error.error_code = "missing_payment"
    /\ call.valid => call.error = NoScraperError

\* a whitespace-only API key is absent: the complete pair is what admits
C12_Witness ==
  /\ PaymentCall
  /\ ApiKeyArg = <<" ">>
  /\ WalletArg = <<"k">>
  /\ TxArg = <<"k">>
  /\ call.valid

\* C13: validate_url answers by the first failing check in the order
\* blank, scheme, embedded credentials, length: blank input is missing_url;
\* no http:// or https:// prefix (any case) is invalid_url; scheme://...@
\* with no '/' in between is invalid_url; more than 2048 characters after
\* trimming is invalid_url; every error has status 400; all other inputs
\* are valid.
C13_ValidateUrlFirstFailingCheck ==
  call.fn = "validate_url" =>
    LET trimmed == Strip(call.arg)
        error == call.error
    IN /\ ~ call.valid => error.status_code = 400
       /\ IF IsBlank(call.arg)
          THEN ~ call.valid /\ error.error_code = "missing_url"
          ELSE IF ~ MatchesScheme(trimmed)
          THEN /\ ~ call.valid /\ error.error_code = "invalid_url"
               /\ error.message = <<"URL must start with http:// or https://">>
          ELSE IF HasCredentials(trimmed)
          THEN /\ ~ call.valid /\ error.error_code = "invalid_url"
               /\ error.message = <<"URLs with embedded credentials are not allowed">>
          ELSE IF Len(trimmed) > MAX_URL_LENGTH
          THEN /\ ~ call.valid /\ error.error_code = "invalid_url"
               /\ error.message = <<"URL exceeds maximum length (2048 characters)">>
          ELSE call.valid /\ error = NoScraperError

\* credentials and over length at once: the credentials check answers
C13_Witness ==
  /\ call.fn = "validate_url"
  /\ call.arg = UrlCredTooLong
  /\ call.error.message = <<"URLs with embedded credentials are not allowed">>

\* ------------------------------------------------------------------------
\* Classification of transport failures
\* ------------------------------------------------------------------------
ClassifiesTransport == call.fn \in {"network_error_to_scraper_error", "MapGetException"}

\* C14: an SSL/TLS failure is classified ssl_error with status 502, never
\* connection_error, dns_error or host_unreachable, whatever its message
\* text says, by network_error_to_scraper_error and by local_scrape.
C14_SslErrorBeforeConnectionError ==
  ClassifiesTransport /\ IsInstance(call.arg, "SSLError") =>
    /\ call.error.error_code = "ssl_error"
    /\ call.error.status_code = 502

\* an SSL failure whose text reads like a DNS failure, met by local_scrape
C14_Witness ==
  /\ call.fn = "MapGetException"
  /\ call.arg = Raised("SSLError", <<"Max retries exceeded", "Name or service not known">>)
  /\ call.error.error_code = "ssl_error"

MarkerTexts == {<<"Name or service not known">>, <<"Failed to resolve">>,
                <<"Connection refused">>, <<"Network is unreachable">>}

\* a transport exception that is no timeout, SSL, DNS, refusal or
\* unreachable-network failure
OtherTransportFailure(exc) ==
  /\ IsInstance(exc, "RequestException")
  /\ ~ IsInstance(exc, "Timeout")
  /\ ~ IsInstance(exc, "SSLError")
  /\ \A m \in MarkerTexts : ~ Contains(exc.message, m)

\* C15: every other transport exception is classified connection_error
\* with status 502, by network_error_to_scraper_error and by local_scrape.
C15_OtherTransportIsConnectionError ==
  ClassifiesTransport /\ OtherTransportFailure(call.arg) =>
    /\ call.error.error_code = "connection_error"
    /\ call.error.status_code = 502

\* ------------------------------------------------------------------------
\* Decoding and transformation in local_scrape
\* ------------------------------------------------------------------------
Returned == outcome.kind = "returned"
FailedIn(stage) == Failed /\ pc = "done" /\ Last(stages) = stage

\* C16: decoding never fails because of the charset name: with the charset
\* absent or unrecognised the body is decoded as UTF-8 with replacement and
\* the call goes on to the format stage.
C16_UnknownCharsetFallsBackToUtf8 ==
  /\ ~ FailedIn("decode")
  /\ pc = "format" /\ resp.encoding \notin KnownCodecs =>
        text = Decode(Take(resp.body, content), "utf-8")

\* well-formed JSON texts among the bodies, with the value each denotes
WellFormedJson ==
  {<<BytesJsonObj, <<"obj", <<(<<(<<"a">>), (<<"num", <<"1">> >>)>>)>> >> >>,
   <<BytesJsonNull, <<"null">> >>}

\* C17: a call succeeds only with content that is non-empty after
\* transformation (text and html: non-empty once trimmed; json: not null);
\* otherwise the result is empty_response with status 502.
C17_EmptinessJudgedAfterTransformation ==
  Returned =>
    IF format = FmtJson
    THEN outcome.result # <<"null">>
    ELSE outcome.result.pad > 0 \/ ~ IsBlank(outcome.result.data)

AcceptedFormat(f) == f = << >> \/ f \in VALID_FORMATS

\* C18: a format other than absent, empty, text, html or json is rejected
\* with invalid_format (status 400) and no content is produced for it.
C18_UnknownFormatRejected ==
  ~ AcceptedFormat(format) =>
    /\ ~ Returned
    /\ FailedIn("format") => ErrorCode = "invalid_format" /\ outcome.exc.status_code = 400

\* texts that come from outside the program: what caught exceptions say and
\* the charset names of responses
ForeignTexts ==
  {exc.message : exc \in GetExceptions \cup ReadExceptions \cup ParseExceptions}
  \cup {<<enc>> : enc \in Encodings \ {""}}

\* C19: no error message handed to the caller contains text taken from a
\* caught exception or from response metadata such as the encoding name.
C19_MessagesCarryNoForeignText ==
  Failed /\ outcome.exc.scraper =>
    \A foreign \in ForeignTexts : ~ Contains(outcome.exc.message, foreign)

\* C20: with format json, a well-formed JSON body yields its parsed value,
\* every other body fails with invalid_json (status 502), and a failure of
\* the JSON stage is never parsing_error or any other code.
C20_JsonParsedOrInvalidJson ==
  format = FmtJson /\ pc = "done" /\ Last(stages) = "format" =>
    /\ \A wf \in WellFormedJson :
         Returned /\ text = [data |-> wf[1], pad |-> 0] => outcome.result = wf[2]
    /\ Returned => \E wf \in WellFormedJson : text = [data |-> wf[1], pad |-> 0]
    /\ Failed => /\ ErrorCode = "invalid_json"
                 /\ outcome.exc.status_code = 502

C22_FetchBoundedByTimeout ==
  /\ elapsed <= TIMEOUT
  /\ timedOutcome.kind = "raised" =>
        /\ timedOutcome.exc.error_code = "timeout"
        /\ timedOutcome.exc.status_code = 504

\* ------------------------------------------------------------------------
\* retry_with_backoff
\* ------------------------------------------------------------------------
RetryDone == retryPc = "done"
AllAttemptsFailed ==
  RetryDone /\ retryOutcome.kind = "raised" /\ retryOutcome.exc.cls # "KeyboardInterrupt"
Doubling(n) == [k \in 1..n |-> base_delay * Pow2(k - 1)]

\* C23: with max_retries = 3 and base_delay = 1 a function that fails on
\* every call is retried with waits of 1s, 2s and 4s before the failure is
\* raised to the caller.
C23_ThreeRetriesWait124 ==
  AllAttemptsFailed /\ max_retries = 3 /\ base_delay = 1 => sleeps = <<1, 2, 4>>

C30_InvokedAtLeastOnce ==
  RetryDone =>
    /\ invocations >= 1
    /\ retryOutcome.kind = "raised" => retryOutcome.exc.invocation \in 1..invocations

\* ------------------------------------------------------------------------
\* data_backup
\* ------------------------------------------------------------------------
\* the response on screen is that of a restore that ran / a backup that ended
RestoreAnswered == adminResp.endpoint = "restore" /\ adminResp.status = 200
BackupAnswered == adminResp.endpoint = "create" /\ adminResp.status = 200
RestoredEntry == backupDir[adminResp.timestamp]
Matches(sums, f, fileContent) ==
  f \in DOMAIN sums /\ sums[f].sha256 = compute_checksum(fileContent)

\* C24: restore_from_backup reports success only if every restored data
\* file matches the checksum recorded in the backup's checksums.json.
C24_RestoreSuccessMeansChecksumsMatch ==
  RestoreAnswered /\ adminResp.success /\ RestoredEntry.has_sums =>
    \A f \in adminResp.files : Matches(RestoredEntry.sums, f, files[f])

Authorised(key) == ADMIN_KEY # "" /\ key = ADMIN_KEY

\* C26: the admin endpoints run create_backup / restore_from_backup only
\* when the X-Admin-Key header equals a non-empty configured key; otherwise
\* the response is 401 and no data file, checksum file or backup directory
\* is changed.
C26_AdminKeyGuardsBackupAndRestore ==
  /\ [](adminResp.endpoint \in {"create", "restore"} =>
          (adminResp.status = 401 <=> ~ Authorised(adminResp.header)))
  /\ [][adminResp'.status = 401 => UNCHANGED <<files, checksums, backupDir, backupPc>>]_vars

\* an empty header against a key that is not configured
C26_Witness ==
  /\ ADMIN_KEY = ""
  /\ adminResp = Unauthorized401("restore", "")

\* C28: the checksums.json inside a backup describes the file contents
\* stored in that backup, also when a data file is written while
\* create_backup runs; restoring the backup and running verify_integrity
\* never reports a restored file as modified.
C28_BackupChecksumsDescribeBackup ==
  /\ \A n \in DOMAIN backupDir :
        backupDir[n].dir /\ backupDir[n].has_sums =>
          \A f \in DOMAIN backupDir[n].gz :
            Matches(backupDir[n].sums, f, backupDir[n].gz[f])
  /\ RestoreAnswered /\ adminResp.success =>
        \A f \in adminResp.files : verify_integrity(files, checksums)[f] # "modified"

ExistedAtBackup(entry) == {f \in DOMAIN entry.at_backup : entry.at_backup[f] # Absent}

\* C29: without a write during create_backup, restoring that backup's
\* timestamp after any later modification gives every data file that
\* existed at backup time its backup-time content, reports success with
\* those files listed, and verify_integrity reports ok for each of them.
C29_BackupRestoreRoundTrip ==
  /\ RestoreAnswered
  /\ adminResp.timestamp \in DOMAIN backupDir
  /\ IsTimestamp(adminResp.timestamp)
  /\ RestoredEntry.dir
  /\ adminResp.timestamp \notin raced
  =>
    /\ adminResp.success
    /\ adminResp.files = ExistedAtBackup(RestoredEntry)
    /\ \A f \in ExistedAtBackup(RestoredEntry) :
          /\ files[f] = RestoredEntry.at_backup[f]
          /\ verify_integrity(files, checksums)[f] = "ok"

\* a file rewritten after the backup has its backup-time content again
C29_Witness ==
  /\ RestoreAnswered
  /\ adminResp.success
  /\ adminResp.timestamp = 1
  /\ 1 \notin raced
  /\ today = 2
  /\ adminResp.files = ExistingFiles
  /\ files["reputation.json"] = "v2"
  /\ backupDir[1].at_backup["reputation.json"] = "v2"
  /\ verify_integrity(files, checksums)["reputation.json"] = "ok"

====
